---- MODULE Spec2Model ----
(***************************************************************************)
(* Model of the meditation session generator                               *)
(*   src/meditation_generator.py  (SpatialAudioProcessor,                  *)
(*                                 AdvancedAudioGenerator)                 *)
(*   src/generate_session.py      (create_meditation_session)              *)
(*                                                                         *)
(* Samples are exact rationals <<n, d>> in lowest terms (d > 0); the       *)
(* result of 0/0 is NaN == <<0, 0>> and of x/0 a signed infinity           *)
(* <<+-1, 0>>, as IEEE division under numpy yields them (a warning, no     *)
(* exception).  Rounding of finite values is not modelled.                 *)
(*                                                                         *)
(* Time is scaled: the sample rate is SampleRate samples per second, and   *)
(* a duration is an integer count of 1/(DurDen*SampleRate) seconds, so     *)
(* int(sample_rate * duration) truncates as in the source.                 *)
(*                                                                         *)
(* The room solver (pyroomacoustics), the rotation (scipy), the TTS engine *)
(* (gTTS) and the decoder (pydub) are external collaborators: each either  *)
(* fails or returns a value drawn from a small set of outcomes.            *)
(***************************************************************************)
EXTENDS Integers, Sequences, FiniteSets, TLC

(* ------------------------------ bounds --------------------------------- *)
\* samples per second (44100 in the source)
SampleRate == 2
\* longest duration argument, in duration units
MaxDur == 8
\* longest list of special sounds
MaxSounds == 2
\* longest decoded speech, in samples
MaxVoice == 2
\* calls made on one generator object (SpecReuse)
MaxRuns == 2
\* chime onsets drawn per wind_chimes sound (25 in the source)
MaxChimes == 2

\* unit of a duration: 1/(DurDen*SampleRate) second
DurDen == 2

(* -------------------------- exact arithmetic --------------------------- *)
Abs(x) == IF x < 0 THEN -x ELSE x

RECURSIVE GCD(_, _)
GCD(a, b) == IF b = 0 THEN a ELSE GCD(b, a % b)

NaN == <<0, 0>>
Zero == <<0, 1>>
One == <<1, 1>>

IsFinite(x) == x[2] # 0

Reduce(n, d) ==
    LET g == GCD(Abs(n), d)
    IN <<(IF n < 0 THEN -(Abs(n) \div g) ELSE n \div g), d \div g>>

Rat(n) == <<n, 1>>

RAdd(a, b) ==
    IF ~IsFinite(a) \/ ~IsFinite(b) THEN NaN
    ELSE Reduce(a[1] * b[2] + b[1] * a[2], a[2] * b[2])

RMul(a, b) ==
    IF ~IsFinite(a) \/ ~IsFinite(b) THEN NaN
    ELSE Reduce(a[1] * b[1], a[2] * b[2])

RAbs(a) == <<Abs(a[1]), a[2]>>

\* a <= b for finite a, b
RLeq(a, b) == a[1] * b[2] <= b[1] * a[2]

\* IEEE division: 0/0 and anything with a NaN give NaN, x/0 a signed infinity
RDiv(a, b) ==
    IF ~IsFinite(a) \/ ~IsFinite(b) THEN NaN
    ELSE IF b[1] = 0
         THEN (IF a[1] = 0 THEN NaN ELSE IF a[1] > 0 THEN <<1, 0>> ELSE <<-1, 0>>)
         ELSE IF b[1] > 0 THEN Reduce(a[1] * b[2], a[2] * b[1])
              ELSE Reduce(-(a[1] * b[2]), a[2] * Abs(b[1]))

\* int(x) of Python: truncation towards zero of n/d, d > 0
IntTrunc(n, d) == IF n >= 0 THEN n \div d ELSE -((-n) \div d)

(* ------------------------- arrays of samples --------------------------- *)
\* a mono waveform is a sequence of samples, a stereo one a sequence of
\* frames <<left, right>>
Flat(w) == [k \in 1..(2 * Len(w)) |-> w[(k + 1) \div 2][IF k % 2 = 1 THEN 1 ELSE 2]]

RECURSIVE MaxAbsFrom(_, _)
MaxAbsFrom(s, k) ==
    IF k = Len(s) THEN RAbs(s[k])
    ELSE LET m == MaxAbsFrom(s, k + 1)
         IN IF RLeq(m, RAbs(s[k])) THEN RAbs(s[k]) ELSE m

\* np.max(np.abs(s)) of a non-empty array: NaN as soon as one sample is NaN
PeakMono(s) ==
    IF \E k \in 1..Len(s) : ~IsFinite(s[k]) THEN NaN ELSE MaxAbsFrom(s, 1)


Peak(w) == PeakMono(Flat(w))

DivMono(s, m) == [k \in 1..Len(s) |-> RDiv(s[k], m)]
DivStereo(w, m) == [k \in 1..Len(w) |-> <<RDiv(w[k][1], m), RDiv(w[k][2], m)>>]

ZeroFrame == <<Zero, Zero>>
Zeros(n) == [k \in 1..n |-> ZeroFrame]

ScaleStereo(w, c) == [k \in 1..Len(w) |-> <<RMul(w[k][1], c), RMul(w[k][2], c)>>]
AddStereo(a, b) == [k \in 1..Len(a) |-> <<RAdd(a[k][1], b[k][1]), RAdd(a[k][2], b[k][2])>>]

Pad(w, n) == w \o Zeros(n - Len(w))
Truncate(w, n) == SubSeq(w, 1, n)

\* lines 190-193: np.pad at the end when shorter, a slice otherwise
\* (AlignSoundPadOnly: the variant that forgets the slice)
AlignSoundPadOnly(w, n) == IF Len(w) < n THEN Pad(w, n) ELSE w
AlignSound(w, n) == IF Len(w) < n THEN Pad(w, n) ELSE Truncate(w, n)

\* lines 263-266: the same for the voice against the bed
\* (AlignVoicePadOnly: the variant that forgets the slice)
AlignVoicePadOnly(w, n) == IF Len(w) < n THEN Pad(w, n) ELSE w
AlignVoice(w, n) == IF Len(w) < n THEN Pad(w, n) ELSE Truncate(w, n)

\* numpy broadcasting of (a, 2) against (n, 2): equal lengths, or a = 1
CanBroadcastTo(w, n) == Len(w) = n \/ Len(w) = 1
BroadcastTo(w, n) == IF Len(w) = n THEN w ELSE [k \in 1..n |-> w[1]]

(* --------------------------- preset tables ----------------------------- *)
\* brainwave_states, in units of 0.5 Hz
brainwave_states ==
    [gamma |-> <<60, 100>>, beta |-> <<28, 60>>, alpha |-> <<16, 28>>,
     theta |-> <<8, 16>>, delta |-> <<1, 8>>]

\* special_sounds: default duration in seconds, position in decimetres
special_sounds_table ==
    [crystal_bowls |-> [duration |-> 3, position |-> <<25, 25, 15>>],
     om_chant      |-> [duration |-> 4, position |-> <<25, 0, 15>>],
     wind_chimes   |-> [duration |-> 2, position |-> <<0, 25, 20>>]]

VoicePosition == <<25, 25, 17>>
CircularMovement == [pattern |-> "circular", speed |-> 2]
NoMovement == [pattern |-> "none", speed |-> 0]

\* a duration of s seconds in duration units
Seconds(s) == s * DurDen * SampleRate

\* int(self.sample_rate * duration)
NumSamples(d) == IntTrunc(d, DurDen)

(* ---------------------------- synthesis -------------------------------- *)
\* Sums of sines at the sample times t[i] = i * duration / (n - 1), i = 0..n-1,
\* abstracted to integer tables: t[0] = 0 makes sample 0 exactly zero, and the
\* sine of a non-zero floating-point argument is never exactly zero.
CrystalRaw(i) == IF i = 0 THEN 0 ELSE IF i % 2 = 1 THEN 2 + (i % 3) ELSE -(1 + (i % 3))
OmRaw(i) == IF i = 0 THEN 0 ELSE IF i % 3 = 1 THEN -3 ELSE 1 + (i % 2)
ToneRaw(freq2, i) == IF i = 0 THEN 0 ELSE IF (i + freq2) % 2 = 0 THEN 2 ELSE -1

\* the 1-second chime of frequency number f: sin(2 pi f t) * exp(-5 t) over
\* t[:44100]; 44100 is one second at the default rate
ChimeLen == SampleRate
ChimeRaw(f, j) == IF j = 0 THEN 0 ELSE IF j = 1 THEN f + 1 ELSE IF j % 2 = 0 THEN -1 ELSE 1

\* the pentatonic frequencies, by number; onset k belongs to frequency
\* ((k - 1) % NumChimeFreqs) + 1
NumChimeFreqs == 5
FreqOf(k) == ((k - 1) % NumChimeFreqs) + 1

\* int(start * self.sample_rate) for start in np.random.rand(5) * duration;
\* the onsets past the first one that does not fit behave like it
OnsetIdx(n) == 0..(IF n > ChimeLen THEN n - ChimeLen ELSE 0)

\* the guard of line 168
ChimeFits(idx, n) == idx + ChimeLen < n

\* audio after the wind_chimes loops, for onset indices starts[k] (0-based)
ChimeSum(starts, n) ==
    [i \in 1..n |->
        LET hits == {k \in DOMAIN starts :
                        /\ ChimeFits(starts[k], n)
                        /\ starts[k] <= i - 1
                        /\ i - 1 < starts[k] + ChimeLen}
            RECURSIVE Sum(_)
            Sum(S) == IF S = {} THEN 0
                      ELSE LET k == CHOOSE x \in S : TRUE
                           IN ChimeRaw(FreqOf(k), i - 1 - starts[k]) + Sum(S \ {k})
        IN Sum(hits)]

RawSound(sound_type, n, starts) ==
    IF sound_type = "crystal_bowls" THEN [i \in 1..n |-> Rat(CrystalRaw(i - 1))]
    ELSE IF sound_type = "om_chant" THEN [i \in 1..n |-> Rat(OmRaw(i - 1))]
    ELSE LET chimes == ChimeSum(starts, n)
         IN [i \in 1..n |-> Rat(chimes[i])]

\* line 173: audio / np.max(np.abs(audio)) of a non-empty array
NormalizeMono(s) == LET m == PeakMono(s) IN DivMono(s, m)

\* line 273: mixed_audio / np.max(np.abs(mixed_audio)) of a non-empty array
\* (NormalizeStereoGuarded: the variant that skips the division on silence)
NormalizeStereoGuarded(w) == LET m == Peak(w) IN IF m = Zero THEN w ELSE DivStereo(w, m)
NormalizeStereo(w) == LET m == Peak(w) IN DivStereo(w, m)

(* ----------------------- external collaborators ------------------------ *)
\* pra.ShoeBox(room_dim, fs, materials, max_order): a room without sources
\* and without microphones
ShoeBox == [sources |-> <<>>, mics |-> <<>>]

\* pra.circular_2D_array(center, M = 2, ...): an array of M microphones
MicArrayM == 2

\* Outcomes of room.compute_rir() and room.simulate() for a source signal of
\* n samples: one impulse response per microphone, here a single tap of gain
\* gain[m] after `delay` samples, and the length of the rendered signal
RenderOutcomes(n) ==
    {[delay |-> 0, gain |-> <<1, 1>>, len |-> n],
     [delay |-> 1, gain |-> <<2, -1>>, len |-> n + 1],
     [delay |-> 0, gain |-> <<-1, 2>>, len |-> IF n = 0 THEN 0 ELSE n - 1]}

HasNonFinite(s) == \E k \in 1..Len(s) : ~IsFinite(s[k])

\* room.simulate(): per microphone m, the source signal convolved with the
\* impulse response, len samples long; a NaN in the source spreads over the
\* whole convolution
Simulate(src, rir) ==
    LET bad == HasNonFinite(src)
    IN [m \in 1..MicArrayM |->
          [k \in 1..rir.len |->
              IF bad THEN NaN
              ELSE IF k - rir.delay >= 1 /\ k - rir.delay <= Len(src)
                   THEN RMul(Rat(rir.gain[m]), src[k - rir.delay])
                   ELSE Zero]]

\* Rotation.from_euler(...).apply(v) for row i of the array it is given (the
\* solver's microphone-major output): preserves the shape of v
RotationApply(v, i) == IF i % 2 = 0 THEN v ELSE [k \in 1..Len(v) |-> RMul(Rat(-1), v[k])]

\* _apply_movement: output = zeros_like(audio), then row by row
ApplyMovement(audio) == [i \in 1..Len(audio) |-> RotationApply(audio[i], i - 1)]

\* output.T of a (microphones x samples) array
Transpose(out) == [k \in 1..Len(out[1]) |-> <<out[1][k], out[2][k]>>]

\* np.stack([audio, audio]).T and np.column_stack((samples, samples))
Stack(s) == [k \in 1..Len(s) |-> <<s[k], s[k]>>]
Channel0(w) == [k \in 1..Len(w) |-> w[k][1]]

\* np.iinfo(np.int16).max
Int16Max == 32767
\* what the decoder may yield for a script: digital silence, or speech
PcmSpeech(k) == IF k % 2 = 1 THEN Int16Max ELSE -4681
PcmOutcomes ==
    {[k \in 1..n |-> 0] : n \in 0..MaxVoice} \cup
    {[k \in 1..n |-> PcmSpeech(k)] : n \in 1..MaxVoice}

RECURSIVE SeqsUpTo(_, _)
SeqsUpTo(S, n) ==
    IF n = 0 THEN {<<>>}
    ELSE LET prev == SeqsUpTo(S, n - 1)
         IN prev \cup {Append(q, x) : q \in {p \in prev : Len(p) = n - 1}, x \in S}

\* samples.astype(np.float32) / np.iinfo(np.int16).max
PcmToFloat(pcm) == [k \in 1..Len(pcm) |-> Reduce(pcm[k], Int16Max)]

(* ------------------------------ inputs --------------------------------- *)
Durations == (-DurDen)..MaxDur
TargetStates == {"theta", "omega"}
SoundIds == {"crystal_bowls", "om_chant", "wind_chimes", "gong"}
SoundLists == SeqsUpTo(SoundIds, MaxSounds)
Scripts == {"", "Welcome"}

\* inputs of the runs that reuse one generator
ReuseDurations == {0, 2 * DurDen}
ReuseTargetStates == {"theta"}
ReuseSoundLists == {<<>>, <<"crystal_bowls">>, <<"gong">>}

KnownSounds == DOMAIN special_sounds_table
KnownBands == DOMAIN brainwave_states

(* ------------------------------- state --------------------------------- *)
VARIABLES
    pc,              \* position of the single thread of control
    runs,            \* entry-point runs started so far
    duration, target_state, special_sounds, custom_script,   \* arguments
    room,            \* spatial_processor.room
    tmpFiles,        \* temporary files that exist on disk
    outFiles,        \* session files written, in order
    output, si,      \* create_atmos_mix: accumulator and loop position
    spIn, spAudio, spPos, spMove, spRet,   \* create_spatial_effect: its frame
    sound,           \* value returned by create_spatial_effect
    base_audio, mixed_audio, audio,        \* create_guided_meditation locals, result
    err              \* the last exception raised, or <<>>

vars == <<pc, runs, duration, target_state, special_sounds, custom_script, room,
          tmpFiles, outFiles, output, si, spIn, spAudio, spPos, spMove, spRet,
          sound, base_audio, mixed_audio, audio, err>>

args == <<duration, target_state, special_sounds, custom_script>>
spFrame == <<spIn, spAudio, spPos, spMove, spRet>>
locals == <<output, si, sound, base_audio, mixed_audio, audio>>

None == <<>>
Mono(s) == [mono |-> TRUE, s |-> s]
Stereo(w) == [mono |-> FALSE, s |-> w]
NoArg == [mono |-> TRUE, s |-> <<>>]

Init ==
    /\ pc = "idle"
    /\ runs = 0
    /\ duration = 0 /\ target_state = "alpha" /\ special_sounds = <<>> /\ custom_script = ""
    /\ room = ShoeBox          \* SpatialAudioProcessor.__init__
    /\ tmpFiles = {}
    /\ outFiles = <<>>
    /\ output = None /\ si = 0
    /\ spIn = NoArg /\ spAudio = None /\ spPos = None /\ spMove = NoMovement /\ spRet = ""
    /\ sound = None
    /\ base_audio = None /\ mixed_audio = None /\ audio = None
    /\ err = None

\* generate_session.py lines 46-56 catch nothing: an exception raised anywhere
\* below create_meditation_session ends the run
\* (AfterFailureCaught: the variant that swallows it and goes on to save)
AfterFailureCaught == "save"
AfterFailure == "failed"

\* an exception <<type, argument, raising function>> propagates
Raise(kind, what, where) ==
    /\ pc' = AfterFailure
    /\ err' = <<kind, what, where>>

(* ------------------- generate_session.py: entry point ------------------ *)
\* create_meditation_session calls create_guided_meditation and then
\* save_session; the arguments, fixed in the script, are drawn here from the
\* input sets.  A later run uses the same generator object.
Start(Ds, Ts, Ss, Cs, limit) ==
    /\ pc \in {"idle", "done", "failed"}
    /\ runs < limit
    /\ \E d \in Ds, ts \in Ts, ss \in Ss, cs \in Cs :
          /\ duration' = d
          /\ target_state' = ts
          /\ special_sounds' = ss
          /\ custom_script' = cs
    /\ runs' = runs + 1
    /\ pc' = "cgm"
    /\ output' = None /\ si' = 0 /\ sound' = None
    /\ base_audio' = None /\ mixed_audio' = None /\ audio' = None
    /\ spIn' = NoArg /\ spAudio' = None /\ spPos' = None
    /\ spMove' = NoMovement /\ spRet' = ""
    /\ UNCHANGED <<room, tmpFiles, outFiles, err>>

\* one run of the script per process
StartRun == Start(Durations, TargetStates, SoundLists, Scripts, 1)

\* a caller that keeps the generator and calls again, also after a failure
StartAgain == Start(ReuseDurations, ReuseTargetStates, ReuseSoundLists, Scripts, MaxRuns)

(* --------------------------- create_atmos_mix -------------------------- *)
\* lines 246-247, 186: special sounds requested; np.zeros of a negative
\* length raises
AtmosStart ==
    /\ pc = "cgm"
    /\ special_sounds # <<>>
    /\ LET n == NumSamples(duration)
       IN IF n < 0
          THEN /\ Raise("ValueError", "negative dimensions", "create_atmos_mix")
               /\ UNCHANGED <<output, si>>
          ELSE /\ output' = Zeros(n)
               /\ si' = 1
               /\ pc' = "mix_loop"
               /\ err' = err
    /\ UNCHANGED <<runs, args, room, tmpFiles, outFiles, spFrame, sound,
                   base_audio, mixed_audio, audio>>

\* line 196, then line 247
AtmosReturn ==
    /\ pc = "mix_loop"
    /\ si > Len(special_sounds)
    /\ base_audio' = output
    /\ pc' = "voice"
    /\ UNCHANGED <<runs, args, room, tmpFiles, outFiles, output, si, spFrame,
                   sound, mixed_audio, audio, err>>

\* duration = duration or sound_params['duration']
EffectiveDuration(sound_type, d) ==
    IF d = 0 THEN Seconds(special_sounds_table[sound_type].duration) ELSE d

\* the membership test of line 141
IsKnownSound(sound_type) == sound_type \in KnownSounds

\* line 142: raise ValueError(f"Unknown sound type: {sound_type}")
\* (UnknownSoundUnnamed: the variant whose message leaves the identifier out)
UnknownSoundUnnamed(sound_type) ==
    /\ Raise("ValueError", "Unknown sound type", "generate_special_sound")
    /\ UNCHANGED spFrame
UnknownSound(sound_type) ==
    /\ Raise("ValueError", sound_type, "generate_special_sound")
    /\ UNCHANGED spFrame

\* lines 189, 137-180: generate_special_sound up to its call of
\* create_spatial_effect
GenerateSpecialSound ==
    /\ pc = "mix_loop"
    /\ si <= Len(special_sounds)
    /\ LET sound_type == special_sounds[si]
       IN IF ~IsKnownSound(sound_type)
          THEN UnknownSound(sound_type)
          ELSE LET n == NumSamples(EffectiveDuration(sound_type, duration))
               IN IF n < 0
                  THEN /\ Raise("ValueError", "negative samples", "generate_special_sound")
                       /\ UNCHANGED spFrame
                  ELSE \E starts \in (IF sound_type = "wind_chimes"
                                      THEN [1..MaxChimes -> OnsetIdx(n)]
                                      ELSE {<<>>}) :
                         LET raw == RawSound(sound_type, n, starts)
                         IN IF n = 0
                            THEN /\ Raise("ValueError", "zero-size array",
                                          "generate_special_sound")
                                 /\ UNCHANGED spFrame
                            ELSE /\ spIn' = Mono(NormalizeMono(raw))
                                 /\ spPos' = special_sounds_table[sound_type].position
                                 /\ spMove' = CircularMovement
                                 /\ spRet' = "mix"
                                 /\ spAudio' = None
                                 /\ pc' = "sp_reset"
                                 /\ err' = err
    /\ UNCHANGED <<runs, args, room, tmpFiles, outFiles, output, si, sound,
                   base_audio, mixed_audio, audio>>

\* lines 190-194
MixAdd ==
    /\ pc = "mix_add"
    /\ LET scaled == ScaleStereo(AlignSound(sound, Len(output)),
                                 Reduce(1, Len(special_sounds)))
       IN IF ~CanBroadcastTo(scaled, Len(output))
          THEN /\ Raise("ValueError", "broadcast", "create_atmos_mix")
               /\ UNCHANGED <<output, si>>
          ELSE /\ output' = AddStereo(output, BroadcastTo(scaled, Len(output)))
               /\ si' = si + 1
               /\ pc' = "mix_loop"
               /\ err' = err
    /\ sound' = None
    /\ UNCHANGED <<runs, args, room, tmpFiles, outFiles, spFrame,
                   base_audio, mixed_audio, audio>>

(* ------------------------ create_spatial_effect ------------------------ *)
\* the frame of create_spatial_effect is gone once it has returned
PopFrame ==
    /\ spIn' = NoArg /\ spAudio' = None /\ spPos' = None
    /\ spMove' = NoMovement /\ spRet' = ""

\* the room the call works in (lines 45-50)
\* (ReusedRoom: the variant that keeps the sources of the room it finds)
ReusedRoom(r) == [r EXCEPT !.mics = <<>>]
FreshRoom(r) == ShoeBox

\* lines 41-50
SpReset ==
    /\ pc = "sp_reset"
    /\ spAudio' = (IF spIn.mono THEN Stack(spIn.s) ELSE spIn.s)
    /\ room' = FreshRoom(room)
    /\ pc' = "sp_source"
    /\ UNCHANGED <<runs, args, tmpFiles, outFiles, locals, spIn, spPos, spMove,
                   spRet, err>>

\* line 53
SpAddSource ==
    /\ pc = "sp_source"
    /\ room' = [room EXCEPT !.sources =
                   Append(@, [position |-> spPos, signal |-> Channel0(spAudio)])]
    /\ pc' = "sp_mic"
    /\ UNCHANGED <<runs, args, tmpFiles, outFiles, locals, spFrame, err>>

\* lines 54-55
SpAddMic ==
    /\ pc = "sp_mic"
    /\ room' = [room EXCEPT !.mics = Append(@, MicArrayM)]
    /\ pc' = "sp_sim"
    /\ UNCHANGED <<runs, args, tmpFiles, outFiles, locals, spFrame, err>>

\* the solver renders every source of the room
RECURSIVE SimulateRoom(_, _, _)
SimulateRoom(sources, k, rir) ==
    IF k > Len(sources) THEN [m \in 1..MicArrayM |-> [i \in 1..rir.len |-> Zero]]
    ELSE LET one == Simulate(sources[k].signal, rir)
             rest == SimulateRoom(sources, k + 1, rir)
         IN [m \in 1..MicArrayM |-> [i \in 1..rir.len |-> RAdd(one[m][i], rest[m][i])]]

\* lines 58-65: the solver succeeds
SpSimulate ==
    /\ pc = "sp_sim"
    /\ \E rir \in RenderOutcomes(Len(spAudio)) :
          LET out == SimulateRoom(room.sources, 1, rir)
              moved == IF spMove.pattern # "none" THEN ApplyMovement(out) ELSE out
          IN sound' = Transpose(moved)
    /\ pc' = (IF spRet = "mix" THEN "mix_add" ELSE "voice_mix")
    /\ PopFrame
    /\ UNCHANGED <<runs, args, room, tmpFiles, outFiles, output, si,
                   base_audio, mixed_audio, audio, err>>

\* lines 58-59: the solver raises
SpSimulateFail ==
    /\ pc = "sp_sim"
    /\ Raise("RoomSolverError", "", "create_spatial_effect")
    /\ UNCHANGED <<runs, args, room, tmpFiles, outFiles, locals, spFrame>>

(* ----------------- create_guided_meditation: base bed ------------------ *)
\* np.mean of a (low, high) pair, in units of 0.5 Hz
Mean(pair) == (pair[1] + pair[2]) \div 2

\* self.brainwave_states[target_state]: the pair, or KeyError
\* (LookupBandOrDefault: the variant that falls back to alpha, as .get would)
LookupBandOrDefault(band) ==
    IF band \in KnownBands THEN <<"ok", brainwave_states[band]>>
    ELSE <<"ok", brainwave_states["alpha"]>>
LookupBand(band) ==
    IF band \in KnownBands THEN <<"ok", brainwave_states[band]>>
    ELSE <<"KeyError", band>>

\* lines 248-252: no special sounds; np.linspace of a negative count raises,
\* and the dictionary lookup raises KeyError on an unknown band
CgmFallback ==
    /\ pc = "cgm"
    /\ special_sounds = <<>>
    /\ LET n == NumSamples(duration)
       IN IF n < 0
          THEN /\ Raise("ValueError", "negative samples", "create_guided_meditation")
               /\ UNCHANGED base_audio
          ELSE LET band == LookupBand(target_state)
               IN IF band[1] # "ok"
                  THEN /\ Raise(band[1], band[2], "create_guided_meditation")
                       /\ UNCHANGED base_audio
                  ELSE /\ base_audio' =
                             Stack([i \in 1..n |-> Rat(ToneRaw(Mean(band[2]), i - 1))])
                       /\ pc' = "voice"
                       /\ err' = err
    /\ UNCHANGED <<runs, args, room, tmpFiles, outFiles, output, si, spFrame,
                   sound, mixed_audio, audio>>

(* ----------------------- generate_voice_guidance ----------------------- *)
\* lines 269-270: no script, the bed alone is the mix
NoVoice ==
    /\ pc = "voice"
    /\ custom_script = ""
    /\ mixed_audio' = base_audio
    /\ pc' = "normalize"
    /\ UNCHANGED <<runs, args, room, tmpFiles, outFiles, output, si, spFrame,
                   sound, base_audio, audio, err>>

\* the file of this run's tempfile.NamedTemporaryFile
TempName == runs

\* what leaving the with block of line 202 does to the files on disk:
\* delete=False, so closing the file keeps it
CloseTemp(files, name) == files

\* lines 255-256, 202: the temporary file is created
VoiceOpenTemp ==
    /\ pc = "voice"
    /\ custom_script # ""
    /\ tmpFiles' = tmpFiles \cup {TempName}
    /\ pc' = "tts"
    /\ UNCHANGED <<runs, args, room, outFiles, locals, spFrame, err>>

\* lines 204-205: the engine writes the speech
TtsSave ==
    /\ pc = "tts"
    /\ pc' = "decode"
    /\ UNCHANGED <<runs, args, room, tmpFiles, outFiles, locals, spFrame, err>>

\* line 205 raises; the with block is left
TtsSaveFail ==
    /\ pc = "tts"
    /\ tmpFiles' = CloseTemp(tmpFiles, TempName)
    /\ Raise("TTSError", "", "generate_voice_guidance")
    /\ UNCHANGED <<runs, args, room, outFiles, locals, spFrame>>

\* lines 208-218, then 257-260: the decoded samples, scaled and stacked, go
\* to create_spatial_effect
Decode ==
    /\ pc = "decode"
    /\ \E pcm \in PcmOutcomes :
          spIn' = Stereo(Stack(PcmToFloat(pcm)))
    /\ tmpFiles' = CloseTemp(tmpFiles, TempName)
    /\ spPos' = VoicePosition
    /\ spMove' = NoMovement
    /\ spRet' = "voice"
    /\ spAudio' = None
    /\ pc' = "sp_reset"
    /\ UNCHANGED <<runs, args, room, outFiles, locals, err>>

\* line 208 raises; the with block is left
DecodeFail ==
    /\ pc = "decode"
    /\ tmpFiles' = CloseTemp(tmpFiles, TempName)
    /\ Raise("DecodeError", "", "generate_voice_guidance")
    /\ UNCHANGED <<runs, args, room, outFiles, locals, spFrame>>

(* ------------- create_guided_meditation: mix and normalize ------------- *)
\* the gain of the bed under the voice, 0.3
BedGain == Reduce(3, 10)

\* lines 263-268
VoiceMix ==
    /\ pc = "voice_mix"
    /\ LET voice_audio == AlignVoice(sound, Len(base_audio))
           bed == ScaleStereo(base_audio, BedGain)
           n == IF Len(voice_audio) = 1 THEN Len(bed) ELSE Len(voice_audio)
       IN IF ~(CanBroadcastTo(voice_audio, n) /\ CanBroadcastTo(bed, n))
          THEN /\ Raise("ValueError", "broadcast", "create_guided_meditation")
               /\ UNCHANGED mixed_audio
          ELSE /\ mixed_audio' = AddStereo(BroadcastTo(voice_audio, n), BroadcastTo(bed, n))
               /\ pc' = "normalize"
               /\ err' = err
    /\ UNCHANGED <<runs, args, room, tmpFiles, outFiles, output, si, spFrame,
                   sound, base_audio, audio>>

\* lines 272-275: np.max of an empty array raises; otherwise the division,
\* and the return to the entry point
FinalNormalize ==
    /\ pc = "normalize"
    /\ IF Len(mixed_audio) = 0
       THEN /\ Raise("ValueError", "zero-size array", "create_guided_meditation")
            /\ UNCHANGED audio
       ELSE /\ audio' = NormalizeStereo(mixed_audio)
            /\ pc' = "save"
            /\ err' = err
    /\ UNCHANGED <<runs, args, room, tmpFiles, outFiles, output, si, spFrame,
                   sound, base_audio, mixed_audio>>

(* ----------------------------- save_session ---------------------------- *)
\* generate_session.py line 55, save_session lines 220-233
SaveSession ==
    /\ pc = "save"
    /\ outFiles' = Append(outFiles, audio)
    /\ pc' = "done"
    /\ UNCHANGED <<runs, args, room, tmpFiles, locals, spFrame, err>>

Next ==
    \/ StartRun
    \/ AtmosStart \/ AtmosReturn \/ GenerateSpecialSound \/ MixAdd
    \/ SpReset \/ SpAddSource \/ SpAddMic \/ SpSimulate \/ SpSimulateFail
    \/ CgmFallback \/ NoVoice
    \/ VoiceOpenTemp \/ TtsSave \/ TtsSaveFail \/ Decode \/ DecodeFail
    \/ VoiceMix \/ FinalNormalize \/ SaveSession

Spec == Init /\ [][Next]_vars

Step ==
    \/ AtmosStart \/ AtmosReturn \/ GenerateSpecialSound \/ MixAdd
    \/ SpReset \/ SpAddSource \/ SpAddMic \/ SpSimulate \/ SpSimulateFail
    \/ CgmFallback \/ NoVoice
    \/ VoiceOpenTemp \/ TtsSave \/ TtsSaveFail \/ Decode \/ DecodeFail
    \/ VoiceMix \/ FinalNormalize \/ SaveSession

NextReuse == StartAgain \/ Step

SpecReuse == Init /\ [][NextReuse]_vars

(* ============================== properties ============================= *)
\* int(duration * sample_rate), as the contracts state it
TargetLen == IntTrunc(duration, DurDen)

InSpatial == pc \in {"sp_reset", "sp_source", "sp_mic", "sp_sim"}

\* the base bed exists: create_atmos_mix or the fallback branch is over
BedReady ==
    \/ pc \in {"voice", "tts", "decode", "voice_mix", "normalize", "save", "done"}
    \/ InSpatial /\ spRet = "voice"

\* every sample is zero (an empty buffer included); every sample is NaN
AllZero(w) == \A k \in 1..Len(w) : w[k] = ZeroFrame
AllNaN(w) == \A k \in 1..Len(w) : w[k] = <<NaN, NaN>>

TwoChannel(w) == \A k \in 1..Len(w) : Len(w[k]) = 2

UnknownAt == {k \in 1..Len(special_sounds) : special_sounds[k] \notin KnownSounds}
FirstUnknown == CHOOSE k \in UnknownAt : \A j \in UnknownAt : k <= j

Failed(kind, what, where) == pc = "failed" /\ err = <<kind, what, where>>

(* ---- C1 ---- *)
\* C1, as stated: a call whose sound list contains an unsupported identifier
\* fails with the ValueError that names that identifier.
C1_FailsNamingIdentifier ==
    (runs > 0 /\ UnknownAt # {} /\ pc = "failed")
        => err = <<"ValueError", special_sounds[FirstUnknown], "generate_special_sound">>

\* C1, amended: generate_special_sound of an unsupported identifier raises the
\* ValueError naming it and hands no waveform on; a call whose sound list
\* contains one never gets past create_atmos_mix, and fails with that error
\* when the loop reaches the identifier, or earlier with the error of an
\* earlier step.
C1_UnknownSoundNeverRendered ==
    (runs > 0 /\ UnknownAt # {}) =>
        /\ ~BedReady
        /\ si <= FirstUnknown
        /\ (InSpatial \/ pc = "mix_add") => si < FirstUnknown
        /\ pc = "failed" =>
              IF si = FirstUnknown
              THEN err = <<"ValueError", special_sounds[FirstUnknown],
                           "generate_special_sound">>
              ELSE err[3] \in {"create_atmos_mix", "generate_special_sound",
                               "create_spatial_effect"}

C1_Witness ==
    /\ Failed("ValueError", "gong", "generate_special_sound")
    /\ si = 2
    /\ Len(output) > 0 /\ ~AllZero(output)

(* ---- C2 ---- *)
\* C2: create_atmos_mix keeps its accumulator at int(duration * sample_rate)
\* two-channel frames, returns it at that length, and no rendered sound,
\* shorter or longer than the target, makes the addition fail on a shape
\* mismatch.
C2_AtmosMixLength ==
    /\ (pc \in {"mix_loop", "mix_add"} \/ (InSpatial /\ spRet = "mix"))
          => Len(output) = TargetLen /\ TwoChannel(output)
    /\ (runs > 0 /\ special_sounds # <<>> /\ BedReady)
          => Len(base_audio) = TargetLen /\ TwoChannel(base_audio)
    /\ ~Failed("ValueError", "broadcast", "create_atmos_mix")

C2_Witness ==
    /\ pc = "mix_loop"
    /\ si = 3
    /\ Len(output) = TargetLen
    /\ TargetLen >= 2
    /\ \E k \in 1..Len(output) : output[k][1] # Zero /\ IsFinite(output[k][1])

(* ---- C3 ---- *)
\* C3: with a script, the mix of voice and bed has the length of the bed,
\* for a voice shorter than the bed and for one as long or longer, and the
\* returned session has int(duration * sample_rate) frames.
C3_VoiceMixLength ==
    /\ (custom_script # "" /\ pc \in {"normalize", "save", "done"})
          => Len(mixed_audio) = Len(base_audio)
    /\ (pc \in {"save", "done"})
          => Len(audio) = TargetLen /\ Len(audio) = Len(base_audio)
    /\ ~Failed("ValueError", "broadcast", "create_guided_meditation")

C3_Witness ==
    /\ pc = "done"
    /\ custom_script # ""
    /\ Len(sound) > Len(base_audio)
    /\ Len(base_audio) >= 1
    /\ Len(audio) = Len(base_audio)

(* ---- C4 ---- *)
\* C4, as stated: the mono waveform generate_special_sound hands to the
\* spatial renderer has maximum absolute sample exactly 1.0.
C4_PeakNormalized ==
    (pc = "sp_reset" /\ spRet = "mix") => PeakMono(spIn.s) = One

(* ---- C5 ---- *)
\* C5, as stated: when the mixed buffer is not all-silent, the returned
\* waveform has maximum absolute sample 1.0 and normalizing it again changes
\* nothing.
C5_FinalPeakIsOne ==
    (pc \in {"save", "done"} /\ ~AllZero(mixed_audio))
        => Peak(audio) = One /\ NormalizeStereo(audio) = audio

(* ---- C6 ---- *)
\* C6, as stated: a call whose target_state is not a brainwave band fails
\* with an error naming the band before anything else happens.
C6_BadBandAlwaysFails ==
    (runs > 0 /\ target_state \notin KnownBands /\ pc # "cgm")
        => pc = "failed" /\ err[2] = target_state

\* C6, amended: without special sounds (and with a duration that is not
\* negative) the call fails at the band lookup with a KeyError naming the
\* band, before any rendering or voice generation; with special sounds the
\* band is never looked up, and no failure is a KeyError.
C6_BadBandFailsOnlyOnFallback ==
    (runs > 0 /\ target_state \notin KnownBands) =>
        /\ (special_sounds = <<>> /\ pc # "cgm") =>
              /\ pc = "failed"
              /\ err = (IF TargetLen < 0
                        THEN <<"ValueError", "negative samples", "create_guided_meditation">>
                        ELSE <<"KeyError", target_state, "create_guided_meditation">>)
              /\ room = ShoeBox
              /\ tmpFiles = {}
        /\ (special_sounds # <<>> /\ pc = "failed") => err[1] # "KeyError"

C6_Witness ==
    /\ Failed("KeyError", "omega", "create_guided_meditation")
    /\ custom_script # ""
    /\ TargetLen > 0

(* ---- C7 ---- *)
\* C7, as stated: once generate_voice_guidance has exited, on any path, the
\* temporary file it created no longer exists.
C7_TempFileRemoved ==
    pc \notin {"tts", "decode"} => tmpFiles = {}

(* ---- C8 ---- *)
\* C8: whenever the room is simulated it holds exactly the source this call
\* placed (this call's position, channel 0 of this call's input) and exactly
\* one two-microphone array; the call starts from a room with neither.
C8_OneSourcePerCall ==
    /\ pc = "sp_source" => room = ShoeBox
    /\ pc = "sp_mic" => Len(room.sources) = 1 /\ room.mics = <<>>
    /\ pc = "sp_sim" =>
          room = [sources |->
                     <<[position |-> spPos,
                        signal |-> Channel0(IF spIn.mono THEN Stack(spIn.s) ELSE spIn.s)]>>,
                  mics |-> <<MicArrayM>>]

C8_Witness ==
    /\ pc = "sp_sim"
    /\ runs = 2
    /\ err # None /\ err[1] = "RoomSolverError"
    /\ Len(room.sources) = 1 /\ Len(room.sources[1].signal) > 0

(* ---- C9 ---- *)
\* C9: save_session is reached only with the complete waveform that
\* create_guided_meditation returned; a session file exists only after
\* save_session; a failure ends the run with no session file.
C9_SaveOnlyAfterReturn ==
    /\ pc = "save" =>
          /\ err = None
          /\ Len(audio) = TargetLen
          /\ audio = NormalizeStereo(mixed_audio)
    /\ pc # "done" => outFiles = <<>>
    /\ pc = "done" => outFiles = <<audio>> /\ err = None
    /\ pc = "failed" => err # None /\ ~ENABLED Next

C9_Witness ==
    /\ Failed("RoomSolverError", "", "create_spatial_effect")
    /\ spRet = "voice"
    /\ Len(base_audio) > 0
    /\ outFiles = <<>>

(* ---- C10 ---- *)
NormalizeRaised == Failed("ValueError", "zero-size array", "create_guided_meditation")

\* C10, as stated: when the mixed buffer is all zeros the final normalization
\* raises nothing, the call returns non-finite samples, and save_session
\* writes them.
C10_SilentMixNeverRaises ==
    /\ (NormalizeRaised /\ AllZero(mixed_audio)) => FALSE
    /\ (pc \in {"save", "done"} /\ AllZero(mixed_audio)) =>
          /\ AllNaN(audio)
          /\ pc = "done" => outFiles = <<audio>>

\* C10, amended: when the mixed buffer is all zeros and not empty, the
\* final normalization raises nothing, the call returns a waveform of the
\* same length made of NaN, and save_session writes it; the normalization
\* raises only on an empty buffer.
C10_SilentNonEmptyMix ==
    /\ NormalizeRaised => Len(mixed_audio) = 0
    /\ (pc \in {"save", "done"} /\ AllZero(mixed_audio)) =>
          /\ Len(audio) = Len(mixed_audio) /\ Len(audio) > 0
          /\ AllNaN(audio)
          /\ err = None
          /\ pc = "done" => outFiles = <<audio>>

C10_Witness ==
    /\ pc = "done"
    /\ Len(mixed_audio) > 0 /\ AllZero(mixed_audio)
    /\ AllNaN(audio)
    /\ outFiles = <<audio>>

====
